---- MODULE Spec2Model ----
(***************************************************************************)
(* A model of youngoor's bilibili video source                             *)
(* (src/youngoor/src/source/bilibili.rs): URL classification, the HTTP     *)
(* call wrapper and envelope decoder of BilibiliClient, the stream-address *)
(* selection of request_video_url, and the lazy stream built by            *)
(* BilibiliSource::video_list.                                             *)
(*                                                                         *)
(* Conventions.  Option<T> is a sequence: <<>> is None, <<x>> is Some(x).  *)
(* Result<T> is a record [ok, val, err]; an error is [kind, info].  Text   *)
(* that the code inspects character by character (hosts, path segments)    *)
(* is a sequence of one-character strings; text that the code concatenates *)
(* (titles) is a sequence of pieces.                                       *)
(***************************************************************************)
EXTENDS Integers, Sequences, FiniteSets, TLC

\* ------------------------------------------------------------------ bounds

\* Longest episode / part list a remote answer carries.
MaxEpisodes == 2
\* Number of times the consumer asks the stream for its next element.
MaxPulls == 4
\* Longest segmented (durl) list of a stream-address answer.
MaxSegments == 2
\* Longest video or audio candidate list of a separate-track (dash) answer.
MaxCandidates == 2
\* Longest list of source types a registry is built from.
MaxSources == 2

\* ----------------------------------------------------------------- values

\* What the caller holds of its last read-only call: the operation, its
\* argument and what it returned.  This is the value before any such call.
NoQuery == [op |-> "none", arg |-> <<>>, result |-> <<>>]

None == <<>>
Some(x) == <<x>>
IsSome(o) == Len(o) = 1
Unwrap(o) == o[1]

NoError == [kind |-> "none", info |-> <<>>]
Ok(v) == [ok |-> TRUE, val |-> v, err |-> NoError]
Err(kind, info) == [ok |-> FALSE, val |-> <<>>, err |-> [kind |-> kind, info |-> info]]

\* All sequences over S of length at most n.
SeqUpTo(S, n) == UNION {[1..k -> S] : k \in 0..n}

\* Iterator::map over a Vec.
MapSeq(F(_), s) == [i \in 1..Len(s) |-> F(s[i])]

\* ---------------------------------------------------------- text helpers

UpperLetters ==
    <<"A","B","C","D","E","F","G","H","I","J","K","L","M",
      "N","O","P","Q","R","S","T","U","V","W","X","Y","Z">>
LowerLetters ==
    <<"a","b","c","d","e","f","g","h","i","j","k","l","m",
      "n","o","p","q","r","s","t","u","v","w","x","y","z">>

\* u8::to_ascii_lowercase, as used by str::eq_ignore_ascii_case.
UpperSet == {UpperLetters[i] : i \in DOMAIN UpperLetters}
LowerOf == [c \in UpperSet |-> LowerLetters[CHOOSE i \in DOMAIN UpperLetters : UpperLetters[i] = c]]
to_ascii_lowercase(c) == IF c \in UpperSet THEN LowerOf[c] ELSE c

eq_ignore_ascii_case(a, b) ==
    /\ Len(a) = Len(b)
    /\ \A i \in 1..Len(a) : to_ascii_lowercase(a[i]) = to_ascii_lowercase(b[i])

starts_with(s, prefix) ==
    /\ Len(s) >= Len(prefix)
    /\ SubSeq(s, 1, Len(prefix)) = prefix

\* str::strip_prefix: Some(rest) when the prefix is there.
strip_prefix(s, prefix) ==
    IF starts_with(s, prefix) THEN Some(SubSeq(s, Len(prefix) + 1, Len(s))) ELSE None

Digits == <<"0","1","2","3","4","5","6","7","8","9">>
DigitSet == {Digits[i] : i \in DOMAIN Digits}
DigitOf == [c \in DigitSet |-> (CHOOSE i \in DOMAIN Digits : Digits[i] = c) - 1]
IsDigit(c) == c \in DigitSet
DigitValue(c) == DigitOf[c]

I32Max == 2147483647
I32Min == (0 - I32Max) - 1

\* The digit loop of from_str for a text without a minus sign:
\* result.checked_mul(10)?.checked_add(digit)? from the left.  None is Err.
RECURSIVE AccumulatePositive(_)
AccumulatePositive(s) ==
    IF Len(s) = 0 THEN Some(0)
    ELSE LET acc == AccumulatePositive(SubSeq(s, 1, Len(s) - 1))
             d == DigitValue(s[Len(s)])
         IN  IF ~IsSome(acc) THEN None
             ELSE IF Unwrap(acc) > I32Max \div 10 THEN None
             ELSE IF Unwrap(acc) * 10 > I32Max - d THEN None
             ELSE Some(Unwrap(acc) * 10 + d)

\* The digit loop for a text with a minus sign:
\* result.checked_mul(10)?.checked_sub(digit)?.
RECURSIVE AccumulateNegative(_)
AccumulateNegative(s) ==
    IF Len(s) = 0 THEN Some(0)
    ELSE LET acc == AccumulateNegative(SubSeq(s, 1, Len(s) - 1))
             d == DigitValue(s[Len(s)])
         IN  IF ~IsSome(acc) THEN None
             ELSE IF Unwrap(acc) < 0 - (I32Max \div 10) THEN None
             ELSE IF Unwrap(acc) * 10 < I32Min + d THEN None
             ELSE Some(Unwrap(acc) * 10 - d)

\* <i32 as FromStr>::from_str: an optional sign, then one or more decimal
\* digits, and the value must fit 32 bits.  None stands for Err.
parse_i32(s) ==
    LET signed == Len(s) > 0 /\ s[1] \in {"+", "-"}
        body   == IF signed THEN SubSeq(s, 2, Len(s)) ELSE s
    IN  IF Len(body) = 0 \/ \E i \in 1..Len(body) : ~IsDigit(body[i])
        THEN None
        ELSE IF signed /\ s[1] = "-" THEN AccumulateNegative(body)
        ELSE AccumulatePositive(body)

\* ------------------------------------------------------------------- URLs

\* Url::parse on the text of a media or cover address.  A text is
\* [scheme, rest]; parsing fails on a text without a scheme (a relative
\* reference), and otherwise gives the Url [scheme, href].
UrlParse(text) ==
    IF IsSome(text.scheme)
    THEN Ok([scheme |-> Unwrap(text.scheme), href |-> text.rest])
    ELSE Err("ParseError", text)

parse_url(text) ==
    LET r == UrlParse(text)
    IN  IF r.ok THEN r ELSE Err("RequestError", <<"invalid address", text>>)

\* Url::to_string of a request address [base, query].
UrlToString(url) == <<url.base, url.query>>

REQUEST_VIDEO_INFO_URL == "https://api.bilibili.com/x/player/pagelist"
REQUEST_VIDEO_URL == "https://api.bilibili.com/x/player/playurl"
REQUEST_SSID_BY_MDID_URL == "https://api.bilibili.com/pgc/review/user"
REQUEST_BANGUMI_INFO_URL == "https://api.bilibili.com/pgc/view/web/season"

\* i32::to_string / u8::to_string: the decimal text of n.
IntToString(n) == [dec |-> n]

HostWww == <<"w","w","w",".","b","i","l","i","b","i","l","i",".","c","o","m">>
HostBare == <<"b","i","l","i","b","i","l","i",".","c","o","m">>
SegVideo == <<"v","i","d","e","o">>
SegBangumi == <<"b","a","n","g","u","m","i">>
SegMedia == <<"m","e","d","i","a">>
PrefixBV == <<"B","V">>
PrefixMd == <<"m","d">>

UrlTypeVideo(bvid) == [tag |-> "Video", bvid |-> bvid, media_id |-> 0]
UrlTypeBangumi(id) == [tag |-> "Bangumi", bvid |-> <<>>, media_id |-> id]

\* BilibiliSource::url_type.  A page Url is [host, segs]: host_str() and
\* path_segments(), each an Option.  path.next() walks segs from the left.
url_type(url) ==
    IF ~IsSome(url.host) THEN None
    ELSE LET host == Unwrap(url.host)
             is_host == \/ eq_ignore_ascii_case(host, HostWww)
                        \/ eq_ignore_ascii_case(host, HostBare)
         IN
         IF ~is_host THEN None
         ELSE IF ~IsSome(url.segs) THEN None
         ELSE LET path == Unwrap(url.segs)
              IN
              IF Len(path) >= 1 /\ path[1] = SegVideo THEN
                  IF Len(path) < 2 THEN None
                  ELSE IF starts_with(path[2], PrefixBV)
                       THEN Some(UrlTypeVideo(path[2]))
                       ELSE None
              ELSE IF Len(path) >= 1 /\ path[1] = SegBangumi THEN
                  IF Len(path) >= 2 /\ path[2] = SegMedia THEN
                      IF Len(path) < 3 THEN None
                      ELSE IF starts_with(path[3], PrefixMd)
                           THEN LET id == parse_i32(Unwrap(strip_prefix(path[3], PrefixMd)))
                                IN  IF IsSome(id) THEN Some(UrlTypeBangumi(Unwrap(id))) ELSE None
                           ELSE None
                  ELSE None
              ELSE None

\* BilibiliSource::valid.
valid(url) == IsSome(url_type(url))

\* ------------------------------------------------- resolution and format

DimensionCodes ==
    {"P240", "P360", "P480", "P720", "P720F60", "P1080", "P1080P", "P1080F60", "P4K"}

\* `dimension as i32`: the discriminant of a DimensionCode.
DimensionCode_as_i32(d) ==
    CASE d = "P240" -> 6
      [] d = "P360" -> 16
      [] d = "P480" -> 32
      [] d = "P720" -> 64
      [] d = "P720F60" -> 74
      [] d = "P1080" -> 80
      [] d = "P1080P" -> 112
      [] d = "P1080F60" -> 116
      [] d = "P4K" -> 120

\* From<i32> with the lowest tier as its catch-all arm.
DimensionCode_from_lowest(dimension) ==
    CASE dimension = 6 -> "P240"
      [] dimension = 16 -> "P360"
      [] dimension = 32 -> "P480"
      [] dimension = 64 -> "P720"
      [] dimension = 74 -> "P720F60"
      [] dimension = 80 -> "P1080"
      [] dimension = 112 -> "P1080P"
      [] dimension = 116 -> "P1080F60"
      [] dimension = 120 -> "P4K"
      [] OTHER -> "P240"

\* impl From<i32> for DimensionCode.
DimensionCode_from(dimension) ==
    CASE dimension = 6 -> "P240"
      [] dimension = 16 -> "P360"
      [] dimension = 32 -> "P480"
      [] dimension = 64 -> "P720"
      [] dimension = 74 -> "P720F60"
      [] dimension = 80 -> "P1080"
      [] dimension = 112 -> "P1080P"
      [] dimension = 116 -> "P1080F60"
      [] dimension = 120 -> "P4K"
      [] OTHER -> "P720"

\* need_login with P720F60 listed among the anonymous tiers.
need_login_gap(d) == d \notin {"P240", "P360", "P480", "P720F60"}

\* DimensionCode::need_login.
need_login(d) == d \notin {"P240", "P360", "P480"}

\* impl Display for DimensionCode: the label as its pieces, the Chinese
\* words written in pinyin.
DimensionCode_fmt(d) ==
    CASE d = "P240" -> <<"240P", " ", "jisu">>
      [] d = "P360" -> <<"360P", " ", "liuchang">>
      [] d = "P480" -> <<"480P", " ", "qingxi">>
      [] d = "P720" -> <<"720P", " ", "gaoqing", "(", "denglu", ")">>
      [] d = "P720F60" -> <<"720P60", " ", "gaoqing", "(", "dahuiyuan", ")">>
      [] d = "P1080" -> <<"1080P", " ", "gaoqing", "(", "denglu", ")">>
      [] d = "P1080P" -> <<"1080P+", " ", "gaoqing", "(", "dahuiyuan", ")">>
      [] d = "P1080F60" -> <<"1080P60", " ", "gaoqing", "(", "dahuiyuan", ")">>
      [] d = "P4K" -> <<"4K", " ", "chaoqing", "(", "dahuiyuan", ")">>

\* One entry of dimension(): (code.into(), format!("{}", code)).
DimensionEntry(d) == <<DimensionCode_as_i32(d), DimensionCode_fmt(d)>>

\* dimension() with the P1080 and P720F60 entries in each other's place.
BilibiliSource_dimension_swapped ==
    <<DimensionEntry("P240"), DimensionEntry("P480"), DimensionEntry("P720"),
      DimensionEntry("P1080"), DimensionEntry("P720F60"), DimensionEntry("P1080P"),
      DimensionEntry("P1080F60"), DimensionEntry("P4K")>>

\* BilibiliSource::dimension.
BilibiliSource_dimension ==
    <<DimensionEntry("P240"), DimensionEntry("P480"), DimensionEntry("P720"),
      DimensionEntry("P720F60"), DimensionEntry("P1080"), DimensionEntry("P1080P"),
      DimensionEntry("P1080F60"), DimensionEntry("P4K")>>

\* set_token storing a fixed text in place of its argument.
BilibiliClient_set_token_fixed(cookie, token) == Some("SESSDATA=a")

\* BilibiliClient::set_token (BilibiliSource::set_token hands over to it).
BilibiliClient_set_token(cookie, token) == Some(token)

\* BilibiliClient::token (BilibiliSource::token hands over to it):
\* cookie.as_deref().
BilibiliClient_token(cookie) == cookie

\* <T as Default>::default() for a source type: BilibiliSource holds a
\* client without a cookie, the other types are unit structs.
DefaultSource(ty) ==
    IF ty = "BilibiliSource" THEN [ty |-> ty, cookie |-> None] ELSE [ty |-> ty]

\* VideoSource::pretty_name.
pretty_name(source) ==
    CASE source.ty = "BilibiliSource" -> "bilibili"
      [] source.ty = "VideoSource1" -> "source1"
      [] source.ty = "VideoSource2" -> "source2"

\* video_sources! pushing each new source to the front of the vector.
video_sources_front(types) ==
    [i \in 1..Len(types) |-> DefaultSource(types[(Len(types) + 1) - i])]

\* video_sources![S1, ..., Sn]: one push per listed type, in order.
video_sources(types) == [i \in 1..Len(types) |-> DefaultSource(types[i])]

\* impl From<VideoType> for VideoTypeCode.
VideoTypeCode_from(video_type) ==
    CASE video_type = "Flv" -> "Flv2"
      [] video_type = "MP4" -> "Dash"

\* `fnval as u8`: the discriminant of a VideoTypeCode.
VideoTypeCode_as_u8(c) ==
    CASE c = "Flv1" -> 0
      [] c = "Mp4" -> 1
      [] c = "Flv2" -> 2
      [] c = "Dash" -> 16

\* impl From<VideoUrlRequest> for HashMap: the query of a stream-address
\* call, a map from key to text (a HashMap has no order of its own).
VideoUrlRequest_into(bvid, cid, fnval, qn) ==
    [bvid  |-> bvid,
     cid   |-> IntToString(cid),
     qn    |-> IntToString(DimensionCode_as_i32(qn) % 256),
     fnval |-> IntToString(VideoTypeCode_as_u8(fnval) % 256),
     fnver |-> IntToString(0),
     fourk |-> IntToString(1)]

\* ------------------------------------------------------ HTTP call wrapper

\* A request as handed to the transport: reqwest's RequestBuilder after
\* client.get(url) with the query pairs appended.
GetRequest(base, query) ==
    [method |-> "GET", url |-> [base |-> base, query |-> query], cookie |-> None]

\* wrap_cookie without its NeedLogin arm: the request goes out bare when no
\* cookie is set.
wrap_cookie_unchecked(cookie, request, with_cookie) ==
    IF with_cookie /\ IsSome(cookie)
    THEN Ok([request EXCEPT !.cookie = Some(Unwrap(cookie))])
    ELSE Ok(request)

\* wrap_cookie attaching the cookie whenever one is set, whatever
\* with_cookie says.
wrap_cookie_always(cookie, request, with_cookie) ==
    IF IsSome(cookie) THEN Ok([request EXCEPT !.cookie = Some(Unwrap(cookie))])
    ELSE IF with_cookie THEN Err("NeedLogin", <<>>)
    ELSE Ok(request)

\* BilibiliClient::wrap_cookie.
wrap_cookie(cookie, request, with_cookie) ==
    IF with_cookie THEN
        IF IsSome(cookie)
        THEN Ok([request EXCEPT !.cookie = Some(Unwrap(cookie))])
        ELSE Err("NeedLogin", <<>>)
    ELSE Ok(request)

\* The part of bilibili_http_get before the send: Ok(request) is sent.
bilibili_http_get(cookie, base, params, with_cookie) ==
    wrap_cookie(cookie, GetRequest(base, params), with_cookie)

\* BilibiliClient::bilibili_http_post before the send (the JSON body is
\* left out of the request record).
bilibili_http_post(cookie, base, with_cookie) ==
    wrap_cookie(cookie, [method |-> "POST", url |-> [base |-> base, query |-> <<>>],
                         cookie |-> None], with_cookie)

\* StatusCode::canonical_reason.
canonical_reason(status) ==
    CASE status = 200 -> Some("OK")
      [] status = 204 -> Some("No Content")
      [] status = 404 -> Some("Not Found")
      [] OTHER -> None

\* BilibiliClient::http_request, from the transport's answer on.  An answer
\* is [net_ok, status, url, json_ok, code, message, data].
http_request(response) ==
    IF ~response.net_ok THEN Err("ReqwestError", "send")
    ELSE IF response.status # 200 THEN
        LET reason == canonical_reason(response.status)
        IN  Err("RequestError", IF IsSome(reason) THEN Unwrap(reason) ELSE "request error")
    ELSE Ok(response)

\* ------------------------------------------------------ envelope decoder

\* wrap_response_null without its -404 arm: not-found falls to the
\* catch-all and is reported as a RequestError.
wrap_response_null_no404(response) ==
    IF ~response.json_ok THEN Err("ReqwestError", "decode")
    ELSE CASE response.code = 0 -> Ok(response.data)
           [] OTHER -> Err("RequestError", response.message)

\* BilibiliClient::wrap_response_null.
wrap_response_null(response) ==
    LET url == UrlToString(response.url)
    IN  IF ~response.json_ok THEN Err("ReqwestError", "decode")
        ELSE CASE response.code = 0 -> Ok(response.data)
               [] response.code = -400 -> Err("RequestError", response.message)
               [] response.code = -404 -> Err("NoSuchResource", url)
               [] OTHER -> Err("RequestError", response.message)

\* wrap_response_not_null with unwrap_or_default in place of ok_or: an
\* absent payload becomes an empty one.
wrap_response_not_null_default(response) ==
    LET result == wrap_response_null(response)
    IN  IF ~result.ok THEN result
        ELSE IF IsSome(result.val) THEN Ok(Unwrap(result.val))
        ELSE Ok(<<>>)

\* BilibiliClient::wrap_response_not_null.
wrap_response_not_null(response) ==
    LET url == UrlToString(response.url)
        result == wrap_response_null(response)
    IN  IF ~result.ok THEN result
        ELSE IF IsSome(result.val) THEN Ok(Unwrap(result.val))
        ELSE Err("NoSuchResource", url)

\* The part of bilibili_http_get_not_null after the send.
bilibili_http_get_not_null(response) ==
    LET r == http_request(response)
    IN  IF ~r.ok THEN r ELSE wrap_response_not_null(r.val)

\* -------------------------------------------------- stream URL selection

MinOf(S) == CHOOSE x \in S : \A y \in S : x <= y

\* Iterator::collect::<Result<Vec<_>>>: the first Err, or all the values.
CollectResults(rs) ==
    LET bad == {i \in 1..Len(rs) : ~rs[i].ok}
    IN  IF bad # {} THEN rs[MinOf(bad)]
        ELSE Ok([i \in 1..Len(rs) |-> rs[i].val])

\* The part of request_video_url before the send: the stream-address
\* request, or NeedLogin.
request_video_url_request(cookie, bvid, cid, vide_type, dimension) ==
    bilibili_http_get(cookie, REQUEST_VIDEO_URL,
                      VideoUrlRequest_into(bvid, cid, vide_type, dimension),
                      need_login(dimension))

\* request_video_url_select keeping only the first segment of a segmented
\* answer.
request_video_url_select_first_segment(result, bvid, dimension) ==
    IF IsSome(result.durl) THEN
        LET flv == Unwrap(result.durl)
            video_url == CollectResults([i \in 1..Len(flv) |-> parse_url(flv[i].url)])
        IN  IF video_url.ok
            THEN Ok(<<IF Len(video_url.val) = 0 THEN <<>> ELSE <<video_url.val[1]>>, <<>> >>)
            ELSE video_url
    ELSE IF IsSome(result.dash) THEN
        LET dash == Unwrap(result.dash)
            hits == {i \in 1..Len(dash.video) :
                        dash.video[i].id = DimensionCode_as_i32(dimension)}
        IN  IF hits = {} THEN Err("NoSuchResource", <<"bvid=", bvid>>)
            ELSE IF Len(dash.audio) = 0 THEN Err("NoSuchResource", <<"bvid=", bvid>>)
            ELSE LET v == parse_url(dash.video[MinOf(hits)].base_url)
                     a == parse_url(dash.audio[1].base_url)
                 IN  IF ~v.ok THEN v
                     ELSE IF ~a.ok THEN a
                     ELSE Ok(<< <<v.val>>, <<a.val>> >>)
    ELSE Err("NoSuchResource", <<"bvid=", bvid>>)

\* request_video_url_select taking the first video candidate whatever its
\* id.
request_video_url_select_any_id(result, bvid, dimension) ==
    IF IsSome(result.durl) THEN
        LET flv == Unwrap(result.durl)
            video_url == CollectResults([i \in 1..Len(flv) |-> parse_url(flv[i].url)])
        IN  IF video_url.ok THEN Ok(<<video_url.val, <<>> >>) ELSE video_url
    ELSE IF IsSome(result.dash) THEN
        LET dash == Unwrap(result.dash)
        IN  IF Len(dash.video) = 0 THEN Err("NoSuchResource", <<"bvid=", bvid>>)
            ELSE IF Len(dash.audio) = 0 THEN Err("NoSuchResource", <<"bvid=", bvid>>)
            ELSE LET v == parse_url(dash.video[1].base_url)
                     a == parse_url(dash.audio[1].base_url)
                 IN  IF ~v.ok THEN v
                     ELSE IF ~a.ok THEN a
                     ELSE Ok(<< <<v.val>>, <<a.val>> >>)
    ELSE Err("NoSuchResource", <<"bvid=", bvid>>)

\* request_video_url_select taking the last audio candidate (next_back in
\* place of next).
request_video_url_select_last_audio(result, bvid, dimension) ==
    IF IsSome(result.durl) THEN
        LET flv == Unwrap(result.durl)
            video_url == CollectResults([i \in 1..Len(flv) |-> parse_url(flv[i].url)])
        IN  IF video_url.ok THEN Ok(<<video_url.val, <<>> >>) ELSE video_url
    ELSE IF IsSome(result.dash) THEN
        LET dash == Unwrap(result.dash)
            hits == {i \in 1..Len(dash.video) :
                        dash.video[i].id = DimensionCode_as_i32(dimension)}
        IN  IF hits = {} THEN Err("NoSuchResource", <<"bvid=", bvid>>)
            ELSE IF Len(dash.audio) = 0 THEN Err("NoSuchResource", <<"bvid=", bvid>>)
            ELSE LET v == parse_url(dash.video[MinOf(hits)].base_url)
                     a == parse_url(dash.audio[Len(dash.audio)].base_url)
                 IN  IF ~v.ok THEN v
                     ELSE IF ~a.ok THEN a
                     ELSE Ok(<< <<v.val>>, <<a.val>> >>)
    ELSE Err("NoSuchResource", <<"bvid=", bvid>>)

\* The part of request_video_url after the decoded VideoUrlInfo `result`
\* is at hand.  The value is the pair <<video, audio>>.
request_video_url_select(result, bvid, dimension) ==
    IF IsSome(result.durl) THEN
        LET flv == Unwrap(result.durl)
            video_url == CollectResults([i \in 1..Len(flv) |-> parse_url(flv[i].url)])
        IN  IF video_url.ok THEN Ok(<<video_url.val, <<>> >>) ELSE video_url
    ELSE IF IsSome(result.dash) THEN
        LET dash == Unwrap(result.dash)
            hits == {i \in 1..Len(dash.video) :
                        dash.video[i].id = DimensionCode_as_i32(dimension)}
        IN  IF hits = {} THEN Err("NoSuchResource", <<"bvid=", bvid>>)
            ELSE IF Len(dash.audio) = 0 THEN Err("NoSuchResource", <<"bvid=", bvid>>)
            ELSE LET video_url == dash.video[MinOf(hits)].base_url
                     audio_url == dash.audio[1].base_url
                     v == parse_url(video_url)
                     a == parse_url(audio_url)
                 IN  IF ~v.ok THEN v
                     ELSE IF ~a.ok THEN a
                     ELSE Ok(<< <<v.val>>, <<a.val>> >>)
    ELSE Err("NoSuchResource", <<"bvid=", bvid>>)

\* request_video_url from the transport's answer on.
request_video_url(response, bvid, dimension) ==
    LET result == bilibili_http_get_not_null(response)
    IN  IF ~result.ok THEN result
        ELSE request_video_url_select(result.val, bvid, dimension)

\* request_video_info from the transport's answer on: the part list.
request_video_info(response) == bilibili_http_get_not_null(response)

\* request_bangumi_ssid from the transport's answer on: result.media.season_id.
request_bangumi_ssid(response) ==
    LET result == bilibili_http_get_not_null(response)
    IN  IF ~result.ok THEN result ELSE Ok(result.val.media.season_id)

\* request_bangumi_info from the transport's answer on: result.episodes.
request_bangumi_info(response) ==
    LET result == bilibili_http_get_not_null(response)
    IN  IF ~result.ok THEN result ELSE Ok(result.val.episodes)

\* ------------------------------------------------------- the lazy stream

\* The state of the generator behind the stream video_list returns: where
\* it is suspended (pc) and the locals the try_stream! block captured or
\* bound.  pc is "none" while no stream exists, "init" before the first
\* poll, "ssid" / "season" / "pagelist" / "playurl" while it awaits the
\* answer to that call, "yielded" while it is suspended at its yield, and
\* "done" once the block has returned.
NoGen ==
    [pc |-> "none", kind |-> UrlTypeVideo(<<>>), video_type |-> "Flv",
     dimension |-> 0, play_list |-> <<>>, item |-> None]

\* One run of the generator, from where it was resumed to where it next
\* suspends: its new state, the element it handed to the consumer (emit),
\* the request it sent (send), whether the stream reported its end (end),
\* and the remote list it decoded (listed).
Outcome(g, emit, send, end, listed) ==
    [gen |-> g, emit |-> emit, send |-> send, end |-> end, listed |-> listed]

\* `?` turned into skip-and-continue: the error is yielded and the loop
\* goes on with the next item.
FailSkip(g, err) ==
    Outcome([g EXCEPT !.pc = "yielded", !.item = None],
            Some(Err(err.kind, err.info)), None, FALSE, None)

\* try_stream!'s `?`: the error is the element yielded, and the block ends.
Fail(g, err) ==
    Outcome([g EXCEPT !.pc = "done", !.play_list = <<>>, !.item = None],
            Some(Err(err.kind, err.info)), None, FALSE, None)

\* The block returns: the stream ends.
Finish(g, listed) ==
    Outcome([g EXCEPT !.pc = "done", !.play_list = <<>>, !.item = None],
            None, None, TRUE, listed)

\* A call is sent and the generator awaits its answer.
Await(g, pc, request, listed) ==
    Outcome([g EXCEPT !.pc = pc], None, Some(request), FALSE, listed)

\* A yield that does not suspend: the element is handed over and the
\* stream-address call of the next item is sent ahead of the next poll.
YieldPrefetch(g, info) ==
    Outcome([g EXCEPT !.pc = "yielded", !.item = None], Some(Ok(info)),
            IF g.play_list = <<>> THEN None
            ELSE Some(GetRequest(REQUEST_VIDEO_URL,
                     VideoUrlRequest_into(Head(g.play_list).bvid, Head(g.play_list).cid,
                                          VideoTypeCode_from(g.video_type),
                                          DimensionCode_from(g.dimension)))),
            FALSE, None)

\* `yield VideoInfo {..}`: the element goes to the consumer and the
\* generator stays suspended at the yield until it is polled again.
Yield(g, info) ==
    Outcome([g EXCEPT !.pc = "yielded", !.item = None], Some(Ok(info)), None, FALSE, None)

\* The loop taking its items from the back of the deque.
NextItemBack(play_list) == play_list[Len(play_list)]

\* `for item in play_list`: VecDeque's IntoIterator gives the front first.
NextItem(play_list) == Head(play_list)
RestItems(play_list) == Tail(play_list)

\* The head of the `for item in play_list` loop, in both branches.
Loop(g, cookie, listed) ==
    IF g.play_list = <<>> THEN Finish(g, listed)
    ELSE LET item == NextItem(g.play_list)
             request == request_video_url_request(cookie, item.bvid, item.cid,
                            VideoTypeCode_from(g.video_type),
                            DimensionCode_from(g.dimension))
             g2 == [g EXCEPT !.play_list = RestItems(g.play_list), !.item = Some(item)]
         IN  IF ~request.ok THEN Fail(g2, request.err)
             ELSE Await(g2, "playurl", request.val, listed)

\* Start with the listing call always asking for the cookie (with_cookie
\* true in place of self.cookie.is_some()).
StartAuth(g, cookie) ==
    LET request ==
            IF g.kind.tag = "Bangumi"
            THEN bilibili_http_get(cookie, REQUEST_SSID_BY_MDID_URL,
                                   [media_id |-> IntToString(g.kind.media_id)], TRUE)
            ELSE bilibili_http_get(cookie, REQUEST_VIDEO_INFO_URL,
                                   [bvid |-> g.kind.bvid], TRUE)
    IN  IF ~request.ok THEN Fail(g, request.err)
        ELSE Await(g, IF g.kind.tag = "Bangumi" THEN "ssid" ELSE "pagelist",
                   request.val, None)

\* The first poll: the first call of the branch url_type chose.
Start(g, cookie) ==
    LET request ==
            IF g.kind.tag = "Bangumi"
            THEN bilibili_http_get(cookie, REQUEST_SSID_BY_MDID_URL,
                                   [media_id |-> IntToString(g.kind.media_id)],
                                   IsSome(cookie))
            ELSE bilibili_http_get(cookie, REQUEST_VIDEO_INFO_URL,
                                   [bvid |-> g.kind.bvid], IsSome(cookie))
    IN  IF ~request.ok THEN Fail(g, request.err)
        ELSE Await(g, IF g.kind.tag = "Bangumi" THEN "ssid" ELSE "pagelist",
                   request.val, None)

\* The lookup's error dropped (unwrap_or_default in place of `?`): the
\* episode list is asked for with season id 0.
OnSsidLenient(g, cookie, response) ==
    LET ssid == request_bangumi_ssid(response)
        request == bilibili_http_get(cookie, REQUEST_BANGUMI_INFO_URL,
                       [season_id |-> IntToString(IF ssid.ok THEN ssid.val ELSE 0)],
                       IsSome(cookie))
    IN  IF ~request.ok THEN Fail(g, request.err)
        ELSE Await(g, "season", request.val, None)

\* The answer to request_bangumi_ssid, then the call of request_bangumi_info.
OnSsid(g, cookie, response) ==
    LET ssid == request_bangumi_ssid(response)
    IN  IF ~ssid.ok THEN Fail(g, ssid.err)
        ELSE LET request == bilibili_http_get(cookie, REQUEST_BANGUMI_INFO_URL,
                                [season_id |-> IntToString(ssid.val)], IsSome(cookie))
             IN  IF ~request.ok THEN Fail(g, request.err)
                 ELSE Await(g, "season", request.val, None)

\* BangumiItem with the two titles in each other's place in the format
\* string.
BangumiItemLongFirst(episode, video_type) ==
    LET pic == UrlParse(episode.cover)
    IN  IF ~pic.ok
        THEN Err("InvalidApiData", <<"bvid=", episode.bvid, "cid=", episode.cid>>)
        ELSE Ok([bvid |-> episode.bvid, cid |-> episode.cid, pic |-> Some(pic.val),
                 title |-> episode.long_title \o <<" ">> \o episode.title,
                 video_type |-> video_type])

\* One episode of a series as a BilibiliSourceItem, or InvalidApiData.
BangumiItem(episode, video_type) ==
    LET pic == UrlParse(episode.cover)
    IN  IF ~pic.ok
        THEN Err("InvalidApiData", <<"bvid=", episode.bvid, "cid=", episode.cid>>)
        ELSE Ok([bvid |-> episode.bvid, cid |-> episode.cid, pic |-> Some(pic.val),
                 title |-> episode.title \o <<" ">> \o episode.long_title,
                 video_type |-> video_type])

\* One part of a video as a BilibiliSourceItem.
VideoItem(p_info, bvid, video_type) ==
    [bvid |-> bvid, cid |-> p_info.cid, pic |-> None, title |-> p_info.part,
     video_type |-> video_type]

\* OnSeason leaving out the episodes whose cover does not parse
\* (filter_map(Result::ok) in place of collect::<Result<_, _>>()?).
OnSeasonSkipBad(g, cookie, response) ==
    LET episodes == request_bangumi_info(response)
    IN  IF ~episodes.ok THEN Fail(g, episodes.err)
        ELSE LET items == [i \in 1..Len(episodes.val) |->
                              BangumiItem(episodes.val[i], g.video_type)]
                 good == SelectSeq(items, LAMBDA r : r.ok)
             IN  Loop([g EXCEPT !.play_list = [i \in 1..Len(good) |-> good[i].val]],
                      cookie, Some(episodes.val))

\* The answer to request_bangumi_info: the play list, then the loop.
OnSeason(g, cookie, response) ==
    LET episodes == request_bangumi_info(response)
    IN  IF ~episodes.ok THEN Fail(g, episodes.err)
        ELSE LET play_list == CollectResults(
                     [i \in 1..Len(episodes.val) |->
                         BangumiItem(episodes.val[i], g.video_type)])
             IN  IF ~play_list.ok THEN Fail(g, play_list.err)
                 ELSE Loop([g EXCEPT !.play_list = play_list.val], cookie,
                           Some(episodes.val))

\* The answer to request_video_info: the play list, then the loop.
OnPagelist(g, cookie, response) ==
    LET videos == request_video_info(response)
    IN  IF ~videos.ok THEN Fail(g, videos.err)
        ELSE Loop([g EXCEPT !.play_list =
                        [i \in 1..Len(videos.val) |->
                            VideoItem(videos.val[i], g.kind.bvid, g.video_type)]],
                  cookie, Some(videos.val))

\* A failed stream-address call sent again in place of `?`.
OnPlayurlRetry(g, response) ==
    LET item == Unwrap(g.item)
        urls == request_video_url(response, item.bvid, DimensionCode_from(g.dimension))
    IN  IF ~urls.ok
        THEN Await(g, "playurl",
                   GetRequest(REQUEST_VIDEO_URL,
                       VideoUrlRequest_into(item.bvid, item.cid,
                                            VideoTypeCode_from(g.video_type),
                                            DimensionCode_from(g.dimension))),
                   None)
        ELSE Yield(g, [title |-> item.title, pic |-> item.pic,
                       video |-> urls.val[1], audio |-> urls.val[2]])

\* The answer to request_video_url for the current item: yield or fail.
OnPlayurl(g, response) ==
    LET item == Unwrap(g.item)
        urls == request_video_url(response, item.bvid, DimensionCode_from(g.dimension))
    IN  IF ~urls.ok THEN Fail(g, urls.err)
        ELSE Yield(g, [title |-> item.title, pic |-> item.pic,
                       video |-> urls.val[1], audio |-> urls.val[2]])

\* A poll that does not remember the block has returned: a finished
\* stream polled again runs the block from its start.
OnPullRestart(g, cookie) ==
    CASE g.pc = "init" -> Start(g, cookie)
      [] g.pc = "yielded" -> Loop(g, cookie, None)
      [] g.pc = "done" -> Start(g, cookie)

\* A poll of the stream by the consumer's next().
OnPull(g, cookie) ==
    CASE g.pc = "init" -> Start(g, cookie)
      [] g.pc = "yielded" -> Loop(g, cookie, None)
      [] g.pc = "done" -> Outcome(g, None, None, TRUE, None)

\* The generator is woken by the answer to the call it awaits.
OnAnswer(g, cookie, response) ==
    CASE g.pc = "ssid" -> OnSsid(g, cookie, response)
      [] g.pc = "season" -> OnSeason(g, cookie, response)
      [] g.pc = "pagelist" -> OnPagelist(g, cookie, response)
      [] g.pc = "playurl" -> OnPlayurl(g, response)

\* video_list without its Bangumi arm: a series page is not recognised.
video_list_video_only(url, video_type, dimension) ==
    LET t == url_type(url)
    IN  IF IsSome(t) /\ Unwrap(t).tag = "Video"
        THEN Ok([NoGen EXCEPT !.pc = "init", !.kind = Unwrap(t),
                              !.video_type = video_type, !.dimension = dimension])
        ELSE Err("InvalidUrl", url)

\* BilibiliSource::video_list: the stream's generator, or InvalidUrl.
video_list(url, video_type, dimension) ==
    LET t == url_type(url)
    IN  IF IsSome(t)
        THEN Ok([NoGen EXCEPT !.pc = "init", !.kind = Unwrap(t),
                              !.video_type = video_type, !.dimension = dimension])
        ELSE Err("InvalidUrl", url)

\* ----------------------------------------------------- the remote's side

Text(s) == [scheme |-> Some("https"), rest |-> s]
BadText(s) == [scheme |-> None, rest |-> s]

Tokens == {"SESSDATA=a", "SESSDATA=b"}
Messages == {"m1", "m2"}
HttpStatuses == {200, 204, 404}
EnvelopeCodes == {0, -400, -404, -412}

\* Every answer the transport can give to a request for `url`: the send
\* fails, the status is not 200, the body does not decode, or it is an
\* envelope.  A successful envelope carries no payload or one of
\* `payloads`; a failed one carries no payload or `sample`.
Answers(url, payloads, sample) ==
    LET base == [net_ok |-> TRUE, status |-> 200, url |-> url, json_ok |-> TRUE,
                 code |-> 0, message |-> "0", data |-> None]
    IN  {[base EXCEPT !.net_ok = FALSE]}
        \cup {[base EXCEPT !.status = st] : st \in HttpStatuses \ {200}}
        \cup {[base EXCEPT !.json_ok = FALSE]}
        \cup {[base EXCEPT !.data = d] : d \in {None} \cup {Some(x) : x \in payloads}}
        \cup {[base EXCEPT !.code = c, !.message = m, !.data = d] :
                 c \in EnvelopeCodes \ {0}, m \in Messages, d \in {None, Some(sample)}}

\* Page URLs the caller hands to video_list: [host, segs].
BvidA == <<"B","V","1","x">>
PageUrls ==
    {[host |-> Some(HostWww), segs |-> Some(<<SegVideo, BvidA>>)],
     [host |-> Some(HostBare), segs |-> Some(<<SegBangumi, SegMedia, <<"m","d","2","8">> >>)],
     [host |-> Some(HostWww), segs |-> Some(<<SegBangumi, <<"p","l","a","y">>, <<"e","p","3">> >>)],
     [host |-> Some(HostWww), segs |-> Some(<<SegVideo, <<"a","v","1">> >>)],
     [host |-> Some(<<"e","x",".","c","o","m">>), segs |-> Some(<<SegVideo, BvidA>>)],
     [host |-> None, segs |-> Some(<<SegVideo, BvidA>>)]}

VideoTypes == {"Flv", "MP4"}
\* Resolutions the caller asks for: an anonymous tier, an auth-required
\* tier, and an integer that is no platform code.
FlowDimensions == {32, 80, 7}

PInfos == {[cid |-> 11, part |-> <<"part one">>], [cid |-> 12, part |-> <<"part two">>]}
Episodes ==
    {[bvid |-> <<"B","V","e","1">>, cid |-> 21, cover |-> Text(<<"cover", 1>>),
      title |-> <<"1">>, long_title |-> <<"first">>],
     [bvid |-> <<"B","V","e","2">>, cid |-> 22, cover |-> Text(<<"cover", 2>>),
      title |-> <<"2">>, long_title |-> <<"second">>],
     [bvid |-> <<"B","V","e","3">>, cid |-> 23, cover |-> BadText(<<"cover", 3>>),
      title |-> <<"3">>, long_title |-> <<"third">>]}

Durl(text) == [url |-> text]
DashItem(id, text) == [id |-> id, base_url |-> text]
VideoUrlInfo(durl, dash) == [durl |-> durl, dash |-> dash]
Dash(video, audio) == [video |-> video, audio |-> audio]

SampleDash ==
    Dash(<<DashItem(80, Text(<<"v", 80>>)), DashItem(32, Text(<<"v", 32>>))>>,
         <<DashItem(30280, Text(<<"a", 1>>))>>)

\* Stream-address payloads the remote gives during a flow: a segmented
\* list that is empty or full, one with an unparseable address, a
\* separate-track answer, and one with neither shape.
FlowStreamInfos ==
    {VideoUrlInfo(Some(<<>>), None),
     VideoUrlInfo(Some([i \in 1..MaxSegments |-> Durl(Text(<<"seg", i>>))]), Some(SampleDash)),
     VideoUrlInfo(Some(<<Durl(BadText(<<"seg", 0>>))>>), None),
     VideoUrlInfo(None, Some(SampleDash)),
     VideoUrlInfo(None, None)}

\* Stream-address payloads for a direct call of request_video_url.
SegmentTexts == {Text(<<"seg", 1>>), Text(<<"seg", 2>>), BadText(<<"seg", 3>>)}
VideoCandidates ==
    {DashItem(id, t) : id \in {32, 80},
                       t \in {Text(<<"v", 1>>), Text(<<"v", 2>>), BadText(<<"v", 3>>)}}
AudioCandidates ==
    {DashItem(30280, Text(<<"a", 1>>)), DashItem(30216, Text(<<"a", 2>>)),
     DashItem(30232, BadText(<<"a", 3>>))}
CallStreamInfos ==
    {VideoUrlInfo(Some(MapSeq(Durl, l)), d) :
        l \in SeqUpTo(SegmentTexts, MaxSegments), d \in {None, Some(SampleDash)}}
    \cup {VideoUrlInfo(None, Some(Dash(v, a))) :
        v \in SeqUpTo(VideoCandidates, MaxCandidates),
        a \in SeqUpTo(AudioCandidates, MaxCandidates)}
    \cup {VideoUrlInfo(None, None)}

SsidPayloads == {[media |-> [season_id |-> 33]]}
SeasonPayloads == {[episodes |-> l] : l \in SeqUpTo(Episodes, MaxEpisodes)}
PagelistPayloads == SeqUpTo(PInfos, MaxEpisodes)

\* The answers to the call the generator awaits at pc.
FlowAnswers(pc, url) ==
    CASE pc = "ssid" -> Answers(url, SsidPayloads, [media |-> [season_id |-> 33]])
      [] pc = "season" -> Answers(url, SeasonPayloads, [episodes |-> <<>>])
      [] pc = "pagelist" -> Answers(url, PagelistPayloads, <<>>)
      [] pc = "playurl" -> Answers(url, FlowStreamInfos, VideoUrlInfo(None, None))

\* -------------------------------------------------------------- the state

VARIABLES
    cookie,     \* BilibiliClient.cookie: Option<String>
    gen,        \* the generator of the stream video_list returned
    netCalls,   \* the requests handed to the transport, in order
    answers,    \* the transport's answers to the generator's calls, in order
    out,        \* the elements the stream has yielded, in order
    pulls,      \* how many times the consumer has called next()
    polling,    \* the consumer's next() has not returned yet
    nones,      \* how many times next() returned None
    remote,     \* the episode or part list the remote answered with
    ret,        \* the last call of video_list: its url and what it returned
    call,       \* a direct call of a BilibiliClient method
    query       \* the caller's last read-only call and what it returned

vars == <<cookie, gen, netCalls, answers, out, pulls, polling, nones, remote, ret, call,
          query>>

NoCall ==
    [phase |-> "idle", fn |-> "none", with_cookie |-> FALSE, bvid |-> <<>>,
     dimension |-> "P240", had_cookie |-> FALSE, response |-> None, result |-> None]

Init ==
    /\ cookie = None
    /\ gen = NoGen
    /\ netCalls = <<>>
    /\ answers = <<>>
    /\ out = <<>>
    /\ pulls = 0
    /\ polling = FALSE
    /\ nones = 0
    /\ remote = None
    /\ ret = None
    /\ call = NoCall
    /\ query = NoQuery

\* BilibiliSource::set_token.  It takes &mut self, so no stream (which
\* borrows the source) and no call is alive.
SetToken(token) ==
    /\ gen.pc = "none"
    /\ call.phase = "idle"
    /\ cookie' = BilibiliClient_set_token(cookie, token)
    /\ UNCHANGED <<gen, netCalls, answers, out, pulls, polling, nones, remote, ret, call,
                   query>>

\* The caller calls video_list.  What an earlier read-only call returned is
\* not kept past it.
VideoList(url, video_type, dimension) ==
    /\ gen.pc = "none"
    /\ call.phase = "idle"
    /\ LET r == video_list(url, video_type, dimension)
       IN  /\ ret' = Some([url |-> url, result |-> IF r.ok THEN Ok("stream") ELSE r])
           /\ gen' = IF r.ok THEN r.val ELSE gen
    /\ query' = NoQuery
    /\ UNCHANGED <<cookie, netCalls, answers, out, pulls, polling, nones, remote, call>>

\* What one run of the generator does to the state.
Apply(o) ==
    /\ gen' = o.gen
    /\ out' = out \o o.emit
    /\ netCalls' = netCalls \o o.send
    /\ nones' = nones + (IF o.end THEN 1 ELSE 0)
    /\ polling' = (o.emit = None /\ ~o.end)
    /\ remote' = IF IsSome(o.listed) THEN o.listed ELSE remote

\* The consumer calls next() on the stream.
Pull ==
    /\ gen.pc \in {"init", "yielded", "done"}
    /\ ~polling
    /\ pulls < MaxPulls
    /\ pulls' = pulls + 1
    /\ Apply(OnPull(gen, cookie))
    /\ UNCHANGED <<cookie, answers, ret, call, query>>

\* The transport answers the call the generator awaits.
Answer ==
    /\ gen.pc \in {"ssid", "season", "pagelist", "playurl"}
    /\ polling
    /\ \E response \in FlowAnswers(gen.pc, netCalls[Len(netCalls)].url) :
           /\ answers' = Append(answers, response)
           /\ Apply(OnAnswer(gen, cookie, response))
    /\ UNCHANGED <<cookie, pulls, ret, call, query>>

\* The consumer drops the stream.
Drop ==
    /\ gen.pc # "none"
    /\ gen' = NoGen
    /\ netCalls' = <<>>
    /\ answers' = <<>>
    /\ out' = <<>>
    /\ pulls' = 0
    /\ polling' = FALSE
    /\ nones' = 0
    /\ remote' = None
    /\ ret' = None
    /\ UNCHANGED <<cookie, call, query>>

Next ==
    \/ \E token \in Tokens : SetToken(token)
    \/ \E url \in PageUrls, video_type \in VideoTypes, dimension \in FlowDimensions :
           VideoList(url, video_type, dimension)
    \/ Pull
    \/ Answer
    \/ Drop

Spec == Init /\ [][Next]_vars

\* The flow under the scheduling the stream relies on: the transport
\* answers every call it was handed (reqwest's send future resolves), and a
\* consumer that holds a stream it can poll does poll it again.
LiveSpec == Spec /\ WF_vars(Answer) /\ WF_vars(Pull)

\* ------------------------------------- read-only calls on the source

\* Hosts and paths of the page URLs the caller asks about.  A Url is
\* [host, segs]; one that cannot be a base has neither.
QueryHosts ==
    {Some(HostWww), Some(HostBare),
     Some(<<"W","w","W",".","B","i","l","i","b","i","l","i",".","C","O","M">>),
     Some(<<"B","I","L","I","B","I","L","I",".","c","o","m">>),
     Some(<<"m",".","b","i","l","i","b","i","l","i",".","c","o","m">>),
     Some(<<"e","x",".","c","o","m">>),
     None}
SegPlay == <<"p","l","a","y">>
QueryPaths ==
    {<<SegVideo, BvidA>>,
     <<SegVideo, <<"B","V">> >>,
     <<SegVideo, <<"b","v","1","x">> >>,
     <<SegVideo, <<"a","v","1">> >>,
     <<SegVideo, <<>> >>,
     <<SegVideo>>,
     <<SegVideo, BvidA, <<"x">> >>,
     <<<<"V","i","d","e","o">>, BvidA>>,
     <<SegBangumi, SegMedia, <<"m","d","2","8">> >>,
     <<SegBangumi, SegMedia, <<"m","d","0","0","7">> >>,
     <<SegBangumi, SegMedia, <<"m","d","2","8">>, <<>> >>,
     <<SegBangumi, SegMedia, <<"m","d">> >>,
     <<SegBangumi, SegMedia, <<"m","d","-","5">> >>,
     <<SegBangumi, SegMedia, <<"m","d","+","7">> >>,
     <<SegBangumi, SegMedia, <<"m","d","2","x">> >>,
     <<SegBangumi, SegMedia, <<"M","D","2","8">> >>,
     <<SegBangumi, SegMedia, <<"2","8">> >>,
     <<SegBangumi, SegMedia, <<"m","d","2","1","4","7","4","8","3","6","4","7">> >>,
     <<SegBangumi, SegMedia, <<"m","d","2","1","4","7","4","8","3","6","4","8">> >>,
     <<SegBangumi, SegMedia>>,
     <<SegBangumi, SegPlay, <<"e","p","3">> >>,
     <<SegBangumi, SegPlay, <<"m","d","2","8">> >>,
     <<SegBangumi>>,
     <<SegMedia, <<"m","d","2","8">> >>,
     <<<<>>>>}
QueryUrls ==
    {[host |-> h, segs |-> Some(p)] : h \in QueryHosts, p \in QueryPaths}
    \cup {[host |-> None, segs |-> None]}

\* Integers the caller hands over as a resolution: the nine platform
\* codes, their neighbours and the ends of i32.
QueryIntegers ==
    {6, 16, 32, 64, 74, 80, 112, 116, 120} \cup {0, 5, 7, 48, 121, I32Max, I32Min, -6}

\* The source types a registry is built from.
SourceTypes == {"BilibiliSource", "VideoSource1", "VideoSource2"}

\* A read-only call returns: the caller holds its argument and result.
Return(op, arg, result) ==
    /\ gen.pc = "none"
    /\ call.phase = "idle"
    /\ query' = [op |-> op, arg |-> arg, result |-> result]
    /\ UNCHANGED <<cookie, gen, netCalls, answers, out, pulls, polling, nones, remote, ret,
                   call>>

\* BilibiliSource::token.
Token == Return("token", <<>>, BilibiliClient_token(cookie))

\* BilibiliSource::valid.
Valid(url) == Return("valid", url, valid(url))

\* BilibiliSource::url_type.
UrlType(url) == Return("url_type", url, url_type(url))

\* BilibiliSource::dimension; arg keeps the cookie of the source asked.
Dimension == Return("dimension", cookie, BilibiliSource_dimension)

\* DimensionCode::need_login.
NeedLogin(d) == Return("need_login", d, need_login(d))

\* DimensionCode::from(i32), as video_list's `dimension.into()`.
DimensionFrom(dimension) == Return("from", dimension, DimensionCode_from(dimension))

\* video_sources![...].
VideoSources(types) == Return("video_sources", types, video_sources(types))

SourceNext ==
    \/ Next
    \/ Token
    \/ \E url \in PageUrls : Valid(url)
    \/ \E url \in QueryUrls : UrlType(url)
    \/ Dimension
    \/ \E d \in DimensionCodes : NeedLogin(d)
    \/ \E dimension \in QueryIntegers : DimensionFrom(dimension)
    \/ \E types \in SeqUpTo(SourceTypes, MaxSources) : VideoSources(types)

SourceSpec == Init /\ [][SourceNext]_vars

\* ------------------------------------------- direct calls of the client

CallVideoTypeCodes == {"Flv1", "Dash"}
CallDimensions == {"P480", "P720", "P1080"}
CallCid == 171776208
CallMediaId == 28229053
CallSsid == 33624

\* The answers to a direct call of fn.
CallAnswers(fn, url) ==
    CASE fn \in {"bilibili_http_get", "bilibili_http_post", "request_video_info"} ->
            Answers(url, {<<>>, <<[cid |-> 11, part |-> <<"part one">>]>>}, <<>>)
      [] fn = "request_bangumi_ssid" ->
            Answers(url, SsidPayloads, [media |-> [season_id |-> 33]])
      [] fn = "request_bangumi_info" ->
            Answers(url, {[episodes |-> <<>>]}, [episodes |-> <<>>])
      [] fn = "request_video_url" ->
            Answers(url, CallStreamInfos, VideoUrlInfo(None, None))

\* What a client method returns once the transport has answered.
ClientResult(c, response) ==
    CASE c.fn \in {"bilibili_http_get", "bilibili_http_post"} -> http_request(response)
      [] c.fn = "request_video_info" -> request_video_info(response)
      [] c.fn = "request_bangumi_ssid" -> request_bangumi_ssid(response)
      [] c.fn = "request_bangumi_info" -> request_bangumi_info(response)
      [] c.fn = "request_video_url" -> request_video_url(response, c.bvid, c.dimension)

\* A client method is called: `request` is what the wrapper made of it.
\* An Err is the method's result at once; an Ok request is sent.
StartCall(fn, with_cookie, bvid, dimension, request) ==
    /\ gen.pc = "none"
    /\ call.phase = "idle"
    /\ call' = [phase |-> IF request.ok THEN "sent" ELSE "done",
                fn |-> fn, with_cookie |-> with_cookie, bvid |-> bvid,
                dimension |-> dimension, had_cookie |-> IsSome(cookie),
                response |-> None,
                result |-> IF request.ok THEN None ELSE Some(request)]
    /\ netCalls' = IF request.ok THEN Append(netCalls, request.val) ELSE netCalls
    /\ UNCHANGED <<cookie, gen, answers, out, pulls, polling, nones, remote, ret, query>>

CallHttpGet(with_cookie) ==
    StartCall("bilibili_http_get", with_cookie, <<>>, "P240",
              bilibili_http_get(cookie, REQUEST_VIDEO_INFO_URL, [bvid |-> BvidA], with_cookie))

CallHttpPost(with_cookie) ==
    StartCall("bilibili_http_post", with_cookie, <<>>, "P240",
              bilibili_http_post(cookie, REQUEST_VIDEO_INFO_URL, with_cookie))

CallVideoInfo ==
    StartCall("request_video_info", IsSome(cookie), BvidA, "P240",
              bilibili_http_get(cookie, REQUEST_VIDEO_INFO_URL, [bvid |-> BvidA],
                                IsSome(cookie)))

CallBangumiSsid ==
    StartCall("request_bangumi_ssid", IsSome(cookie), <<>>, "P240",
              bilibili_http_get(cookie, REQUEST_SSID_BY_MDID_URL,
                                [media_id |-> IntToString(CallMediaId)], IsSome(cookie)))

CallBangumiInfo ==
    StartCall("request_bangumi_info", IsSome(cookie), <<>>, "P240",
              bilibili_http_get(cookie, REQUEST_BANGUMI_INFO_URL,
                                [season_id |-> IntToString(CallSsid)], IsSome(cookie)))

CallVideoUrl(vide_type, dimension) ==
    StartCall("request_video_url", need_login(dimension), BvidA, dimension,
              request_video_url_request(cookie, BvidA, CallCid, vide_type, dimension))

\* The transport answers the direct call.
CallAnswer ==
    /\ call.phase = "sent"
    /\ \E response \in CallAnswers(call.fn, netCalls[Len(netCalls)].url) :
           call' = [call EXCEPT !.phase = "done", !.response = Some(response),
                                !.result = Some(ClientResult(call, response))]
    /\ UNCHANGED <<cookie, gen, netCalls, answers, out, pulls, polling, nones, remote, ret,
                   query>>

\* The caller is done with the result.
CallReset ==
    /\ call.phase = "done"
    /\ call' = NoCall
    /\ netCalls' = <<>>
    /\ UNCHANGED <<cookie, gen, answers, out, pulls, polling, nones, remote, ret, query>>

CallNext ==
    \/ \E token \in Tokens : SetToken(token)
    \/ \E with_cookie \in BOOLEAN : CallHttpGet(with_cookie)
    \/ \E with_cookie \in BOOLEAN : CallHttpPost(with_cookie)
    \/ CallVideoInfo
    \/ CallBangumiSsid
    \/ CallBangumiInfo
    \/ \E vide_type \in CallVideoTypeCodes, dimension \in CallDimensions :
           CallVideoUrl(vide_type, dimension)
    \/ CallAnswer
    \/ CallReset

CallSpec == Init /\ [][CallNext]_vars

\* ------------------------------------------------------------- the claims

\* The stream-address calls among the requests sent, in order.
StreamCalls == SelectSeq(netCalls, LAMBDA r : r.url.base = REQUEST_VIDEO_URL)

IsNeedLogin(r) == ~r.ok /\ r.err.kind = "NeedLogin"

\* C1: a wrapper invocation (bilibili_http_get, bilibili_http_post, and so
\* request_video_url) made with requiresAuth true while no credential is
\* set has returned, its result is NeedLogin, and no request was handed to
\* the transport.
C1_NeedLoginBeforeAnySend ==
    (call.phase # "idle" /\ call.with_cookie /\ ~call.had_cookie)
        => /\ call.phase = "done"
           /\ IsNeedLogin(Unwrap(call.result))
           /\ Len(netCalls) = 0

C1_Witness ==
    /\ call.phase = "done"
    /\ call.fn = "request_video_url"
    /\ call.dimension = "P1080"
    /\ call.with_cookie
    /\ ~call.had_cookie
    /\ IsNeedLogin(Unwrap(call.result))

\* A direct call of one of the four endpoint methods has returned after an
\* answer whose body decoded as an envelope.
DecodedCall ==
    /\ call.phase = "done"
    /\ call.fn \in {"request_video_info", "request_bangumi_ssid",
                    "request_bangumi_info", "request_video_url"}
    /\ IsSome(call.response)
    /\ Unwrap(call.response).net_ok
    /\ Unwrap(call.response).status = 200
    /\ Unwrap(call.response).json_ok

CallEnvelope == Unwrap(call.response)
CallResult == Unwrap(call.result)
\* The address the call's request went to, as text.
CallUrlText == UrlToString(netCalls[Len(netCalls)].url)

IsError(r, kind, info) == ~r.ok /\ r.err.kind = kind /\ r.err.info = info

\* C6: on every endpoint, an envelope with code -404 gives NoSuchResource
\* carrying the request URL, code -400 gives RequestError carrying the
\* remote message, every other non-zero code gives RequestError carrying
\* the remote message, and a non-zero code never gives Ok, payload or not.
C6_EnvelopeCodeMapping ==
    DecodedCall =>
        /\ CallEnvelope.code = -404 => IsError(CallResult, "NoSuchResource", CallUrlText)
        /\ CallEnvelope.code = -400 => IsError(CallResult, "RequestError", CallEnvelope.message)
        /\ CallEnvelope.code \notin {0, -400, -404}
               => IsError(CallResult, "RequestError", CallEnvelope.message)
        /\ CallEnvelope.code # 0 => ~CallResult.ok

C6_Witness ==
    /\ DecodedCall
    /\ call.fn = "request_video_url"
    /\ CallEnvelope.code = -404
    /\ IsSome(CallEnvelope.data)
    /\ IsError(CallResult, "NoSuchResource", CallUrlText)

\* C7: on the calls that require data (every episode-list and
\* stream-address call), an envelope with code 0 and no payload gives
\* NoSuchResource carrying the request URL, and one with code 0 and a
\* payload gives the payload on: the part list, the season id, the episode
\* list, and for a stream-address call its selection.
C7_PayloadRequired ==
    (DecodedCall /\ CallEnvelope.code = 0) =>
        /\ ~IsSome(CallEnvelope.data)
               => IsError(CallResult, "NoSuchResource", CallUrlText)
        /\ IsSome(CallEnvelope.data) =>
             LET payload == Unwrap(CallEnvelope.data)
             IN  /\ call.fn = "request_video_info" => CallResult = Ok(payload)
                 /\ call.fn = "request_bangumi_ssid"
                        => CallResult = Ok(payload.media.season_id)
                 /\ call.fn = "request_bangumi_info" => CallResult = Ok(payload.episodes)
                 /\ call.fn = "request_video_url"
                        => ~IsError(CallResult, "NoSuchResource", CallUrlText)

C7_Witness ==
    /\ DecodedCall
    /\ CallEnvelope.code = 0
    /\ ~IsSome(CallEnvelope.data)
    /\ call.fn = "request_bangumi_info"
    /\ IsError(CallResult, "NoSuchResource", CallUrlText)

\* A direct call of request_video_url has returned after an envelope with
\* code 0 and a VideoUrlInfo payload.
StreamInfoCall ==
    /\ DecodedCall
    /\ call.fn = "request_video_url"
    /\ CallEnvelope.code = 0
    /\ IsSome(CallEnvelope.data)

CallStreamInfo == Unwrap(CallEnvelope.data)
Parseable(text) == IsSome(text.scheme)

\* C9: for an answer with a populated segmented list of s segments whose
\* addresses all parse, request_video_url returns exactly s video URLs, the
\* i-th being the i-th segment's address, and an empty audio list.
C9_SegmentedAnswer ==
    (/\ StreamInfoCall
     /\ IsSome(CallStreamInfo.durl)
     /\ Len(Unwrap(CallStreamInfo.durl)) >= 1
     /\ \A i \in 1..Len(Unwrap(CallStreamInfo.durl)) :
            Parseable(Unwrap(CallStreamInfo.durl)[i].url))
        => LET flv == Unwrap(CallStreamInfo.durl)
           IN  /\ CallResult.ok
               /\ Len(CallResult.val[1]) = Len(flv)
               /\ \A i \in 1..Len(flv) :
                      CallResult.val[1][i] = [scheme |-> "https", href |-> flv[i].url.rest]
               /\ CallResult.val[2] = <<>>

C9_Witness ==
    /\ StreamInfoCall
    /\ IsSome(CallStreamInfo.durl)
    /\ IsSome(CallStreamInfo.dash)
    /\ Len(Unwrap(CallStreamInfo.durl)) = 2
    /\ Unwrap(CallStreamInfo.durl)[1].url = Text(<<"seg", 2>>)
    /\ Unwrap(CallStreamInfo.durl)[2].url = Text(<<"seg", 1>>)
    /\ CallResult.ok
    /\ Len(CallResult.val[1]) = 2

\* The platform code of a resolution tier, as the claims state it.
PlatformCode(d) ==
    CASE d = "P240" -> 6 [] d = "P360" -> 16 [] d = "P480" -> 32 [] d = "P720" -> 64
      [] d = "P720F60" -> 74 [] d = "P1080" -> 80 [] d = "P1080P" -> 112
      [] d = "P1080F60" -> 116 [] d = "P4K" -> 120

\* C10: for a separate-track answer, a returned video URL is the address of
\* the first video candidate, in answer order, whose id equals the
\* requested resolution code, never that of a candidate with another id;
\* and with no candidate of the requested id the result is NoSuchResource.
C10_ExactVideoCandidate ==
    (/\ StreamInfoCall
     /\ ~IsSome(CallStreamInfo.durl)
     /\ IsSome(CallStreamInfo.dash))
        => LET video == Unwrap(CallStreamInfo.dash).video
               hits == {i \in 1..Len(video) : video[i].id = PlatformCode(call.dimension)}
           IN  /\ CallResult.ok =>
                     /\ hits # {}
                     /\ LET first == CHOOSE i \in hits : \A j \in hits : i <= j
                        IN  CallResult.val[1] =
                                <<[scheme |-> "https", href |-> video[first].base_url.rest]>>
               /\ hits = {} => (~CallResult.ok /\ CallResult.err.kind = "NoSuchResource")

C10_Witness ==
    /\ StreamInfoCall
    /\ ~IsSome(CallStreamInfo.durl)
    /\ IsSome(CallStreamInfo.dash)
    /\ call.dimension = "P1080"
    /\ LET video == Unwrap(CallStreamInfo.dash).video
       IN  /\ Len(video) = 2
           /\ video[1].id = 32
           /\ video[2].id = 80
    /\ CallResult.ok

\* C10's other case: no candidate carries the requested code.
C10_WitnessNoCandidate ==
    /\ StreamInfoCall
    /\ ~IsSome(CallStreamInfo.durl)
    /\ IsSome(CallStreamInfo.dash)
    /\ call.dimension = "P720"
    /\ Len(Unwrap(CallStreamInfo.dash).video) = 2
    /\ ~CallResult.ok
    /\ CallResult.err.kind = "NoSuchResource"

\* The episode or part list the remote answered with.
RemoteList == Unwrap(remote)
\* The answer to the i-th of the stream-address calls `calls` of the flow.
StreamAnswer(calls, i) == answers[(Len(netCalls) - Len(calls)) + i]
\* The remote entry a stream-address request is for: its cid, and its bvid
\* (the page's own for a part of a video).
RequestIsFor(request, entry) ==
    /\ request.url.query.cid = [dec |-> entry.cid]
    /\ request.url.query.bvid
           = (IF gen.kind.tag = "Bangumi" THEN entry.bvid ELSE gen.kind.bvid)

\* C2: the stream is pull-based.  At every point the stream-address calls
\* issued are at most as many as the elements the consumer has asked for;
\* once the consumer holds k elements and is not asking for more, at most
\* k were issued, and they are those of the first entries of the remote
\* list, so none is for an entry past the k-th.
C2_PullBased ==
    gen.pc # "none" =>
        LET calls == StreamCalls
        IN  /\ Len(calls) <= pulls
            /\ ~polling => Len(calls) <= Len(out)
            /\ Len(calls) > 0 =>
                  /\ IsSome(remote)
                  /\ Len(calls) <= Len(RemoteList)
                  /\ \A i \in 1..Len(calls) : RequestIsFor(calls[i], RemoteList[i])

C2_Witness ==
    /\ gen.pc = "yielded"
    /\ pulls = 1
    /\ ~polling
    /\ Len(out) = 1
    /\ out[1].ok
    /\ IsSome(remote)
    /\ Len(RemoteList) = 2
    /\ Len(StreamCalls) = 1

\* The stream has ended and every element it yielded is a ResolvedMedia.
DrainedWithoutError ==
    /\ gen.pc = "done"
    /\ ~polling
    /\ nones >= 1
    /\ \A i \in 1..Len(out) : out[i].ok

\* C3: when every step of a flow succeeds, draining the stream gives one
\* ResolvedMedia per entry of the remote list, the i-th made from the i-th
\* entry (its title, and its stream key in the i-th stream-address call,
\* whose answer gives its URLs), in the Video and the Series branch alike.
C3_OrderPreserved ==
    DrainedWithoutError =>
        LET calls == StreamCalls
        IN
        /\ IsSome(remote)
        /\ Len(out) = Len(RemoteList)
        /\ Len(calls) = Len(RemoteList)
        /\ \A i \in 1..Len(RemoteList) :
              /\ RequestIsFor(calls[i], RemoteList[i])
              /\ gen.kind.tag = "Video" => out[i].val.title = RemoteList[i].part
              /\ gen.kind.tag = "Bangumi" =>
                    /\ \E k \in 1..Len(out[i].val.title) :
                           <<out[i].val.title[k]>> = RemoteList[i].title
                    /\ \E k \in 1..Len(out[i].val.title) :
                           <<out[i].val.title[k]>> = RemoteList[i].long_title
              /\ LET info == Unwrap(StreamAnswer(calls, i).data)
                 IN  IF IsSome(info.durl)
                     THEN Len(out[i].val.video) = Len(Unwrap(info.durl))
                     ELSE out[i].val.audio # <<>>

C3_Witness ==
    /\ DrainedWithoutError
    /\ gen.kind.tag = "Bangumi"
    /\ IsSome(remote)
    /\ Len(RemoteList) = 2
    /\ RemoteList[1].cid = 22
    /\ RemoteList[2].cid = 21
    /\ Len(out) = 2

\* C4: fail-fast.  An error is the last element the stream ever yields:
\* the stream has ended, the elements before it are the media of the
\* entries before the failing one, and no stream-address call was issued
\* past the failing entry, however often the consumer pulls afterwards.
C4_FailFast ==
    \A i \in 1..Len(out) :
        ~out[i].ok =>
            LET calls == StreamCalls
            IN  /\ i = Len(out)
                /\ gen.pc = "done"
                /\ ~polling
                /\ Len(calls) <= i
                /\ IsSome(remote) => Len(calls) >= i - 1

C4_Witness ==
    /\ Len(out) = 1
    /\ ~out[1].ok
    /\ out[1].err.kind = "RequestError"
    /\ IsSome(remote)
    /\ Len(RemoteList) = 2
    /\ Len(StreamCalls) = 1
    /\ nones >= 2

\* C5: video_list returns InvalidUrl carrying the input URL, with no
\* stream and no network call, exactly when valid(url) is false; when
\* valid(url) is true it returns a stream, which has issued no call before
\* it is first polled.
C5_InvalidUrlIffNotValid ==
    /\ IsSome(ret) =>
          LET r == Unwrap(ret)
              recognised == valid(r.url)
          IN  /\ ~recognised =>
                    /\ IsError(r.result, "InvalidUrl", r.url)
                    /\ gen.pc = "none"
                    /\ netCalls = <<>>
              /\ recognised => (r.result.ok /\ gen.pc # "none")
    /\ gen.pc = "init" => netCalls = <<>>

C5_Witness ==
    /\ IsSome(ret)
    /\ Unwrap(ret).url.segs = Some(<<SegBangumi, <<"p","l","a","y">>, <<"e","p","3">> >>)
    /\ IsError(Unwrap(ret).result, "InvalidUrl", Unwrap(ret).url)
    /\ IsSome(cookie)
    /\ netCalls = <<>>

\* C8: every ResolvedMedia a flow yields has at least one video URL, and
\* its audio list is empty only when its URLs came from the segmented
\* shape of the answer.
C8_MediaHasVideo ==
    \A i \in 1..Len(out) :
        out[i].ok =>
            /\ Len(out[i].val.video) >= 1
            /\ out[i].val.audio = <<>>
                   => IsSome(Unwrap(StreamAnswer(StreamCalls, i).data).durl)

\* The second half of C8 alone.
C8_AudioEmptyOnlySegmented ==
    \A i \in 1..Len(out) :
        (out[i].ok /\ out[i].val.audio = <<>>)
            => IsSome(Unwrap(StreamAnswer(StreamCalls, i).data).durl)

\* ------------------------------------------- claims on the read-only calls

\* C11: need_login is false for the three tiers with the lowest platform
\* codes and true for every tier above them: a tier requires a credential
\* exactly when at least three tiers lie below it, so no auth-required tier
\* lies below an anonymous one.
C11_NeedLoginThreshold ==
    query.op = "need_login" =>
        LET below == {e \in DimensionCodes : PlatformCode(e) < PlatformCode(query.arg)}
        IN  query.result = (Cardinality(below) >= 3)

C11_Witness ==
    /\ query.op = "need_login"
    /\ query.arg = "P720"
    /\ query.result = TRUE

\* C12: whatever integer is handed over as a resolution, the platform code
\* of the tier From<i32> turns it into is the first component of some entry
\* of dimension().
C12_DimensionListsEveryTier ==
    query.op = "from" =>
        \E i \in 1..Len(BilibiliSource_dimension) :
            BilibiliSource_dimension[i][1] = PlatformCode(query.result)

\* The platform codes dimension() is to list, as the source lists them.
ListedCodes == {6, 32, 64, 74, 80, 112, 116, 120}

\* C13: dimension() returns entries with strictly ascending platform codes
\* (so no code twice), each with a non-empty label, and the same entries
\* whether or not a credential is set: always those of ListedCodes, and two
\* calls in a row return the same list.
C13_DimensionOrder ==
    /\ [](query.op = "dimension" =>
            LET l == query.result
            IN  /\ \A i, j \in 1..Len(l) : i < j => l[i][1] < l[j][1]
                /\ \A i \in 1..Len(l) : Len(l[i][2]) > 0
                /\ {l[i][1] : i \in 1..Len(l)} = ListedCodes)
    /\ [][(query.op = "dimension" /\ query'.op = "dimension")
              => query'.result = query.result]_vars

C13_Witness ==
    /\ query.op = "dimension"
    /\ IsSome(query.arg)
    /\ Len(query.result) = 8

\* C14: a new source has no credential; a set_token call leaves token()
\* returning the value passed to it; and no other step (video_list, a pull
\* or an answer of a stream, a failing call, dropping the stream, valid,
\* dimension, token) changes the credential.
C14_CredentialFrame ==
    /\ BilibiliClient_token(cookie) = None
    /\ [][/\ \A token \in Tokens :
                SetToken(token) => BilibiliClient_token(cookie') = Some(token)
          /\ (~ \E token \in Tokens : SetToken(token)) => cookie' = cookie]_vars

C14_Witness ==
    /\ query.op = "token"
    /\ query.result = Some("SESSDATA=b")
    /\ IsSome(ret)
    /\ ~Unwrap(ret).result.ok

AllDigits(s) == Len(s) > 0 /\ \A i \in 1..Len(s) : s[i] \in DigitSet

C16_RegistryOrder ==
    query.op = "video_sources" =>
        /\ Len(query.result) = Len(query.arg)
        /\ \A i \in 1..Len(query.arg) :
               /\ query.result[i].ty = query.arg[i]
               /\ query.arg[i] = "BilibiliSource" => query.result[i].cookie = None

C16_Witness ==
    /\ query.op = "video_sources"
    /\ query.arg = <<"VideoSource1", "VideoSource2">>
    /\ pretty_name(query.result[1]) = "source1"
    /\ pretty_name(query.result[2]) = "source2"

\* --------------------------------------------- claims on the call sequence

\* The transport's answer makes the wrapper and the decoder succeed: it
\* arrived with status 200 and is an envelope of code 0 with a payload.
Succeeded(response) ==
    /\ response.net_ok
    /\ response.status = 200
    /\ response.json_ok
    /\ response.code = 0
    /\ IsSome(response.data)

SeriesFlow == gen.pc # "none" /\ gen.kind.tag = "Bangumi"

\* C17: in a Series flow the first call is the media-id lookup and no later
\* call is; the episode-list call is the second call, it carries the series
\* id the lookup answered, and it is made only after the lookup succeeded;
\* a stream-address call is the third or a later call and is made only
\* after the episode-list call succeeded.  After a failed lookup there is
\* that one call only, and the stream holds one error and nothing else.
C17_SeriesCallOrder ==
    SeriesFlow =>
        /\ \A i \in 1..Len(netCalls) :
              LET base == netCalls[i].url.base
              IN  /\ (i = 1) <=> (base = REQUEST_SSID_BY_MDID_URL)
                  /\ (i = 2) <=> (base = REQUEST_BANGUMI_INFO_URL)
                  /\ (i >= 3) <=> (base = REQUEST_VIDEO_URL)
                  /\ i >= 2 => Succeeded(answers[1])
                  /\ i = 2 => netCalls[i].url.query.season_id =
                                  IntToString(Unwrap(answers[1].data).media.season_id)
                  /\ i >= 3 => Succeeded(answers[2])
        /\ (Len(answers) >= 1 /\ ~Succeeded(answers[1])) =>
              /\ Len(netCalls) = 1
              /\ Len(out) = 1
              /\ ~out[1].ok

C17_Witness ==
    /\ SeriesFlow
    /\ Len(netCalls) >= 4
    /\ Len(out) >= 1

C17_WitnessLookupFailed ==
    /\ SeriesFlow
    /\ Len(answers) = 1
    /\ ~Succeeded(answers[1])
    /\ nones >= 1
    /\ pulls >= 3

Awaiting == gen.pc \in {"ssid", "season", "pagelist", "playurl"}

\* C18: every call the flow hands to the transport is answered once and
\* never sent again: there are as many calls as answers, plus the one
\* awaited; a call whose answer failed is the last call of the flow; and a
\* stream drained without any error has made one listing call for a Video
\* (two for a Series) and one stream-address call per entry of the list.
C18_OneCallEach ==
    gen.pc # "none" =>
        /\ Len(netCalls) = Len(answers) + (IF Awaiting THEN 1 ELSE 0)
        /\ \A i \in 1..Len(answers) : ~Succeeded(answers[i]) => Len(netCalls) = i
        /\ DrainedWithoutError =>
              /\ IsSome(remote)
              /\ Len(netCalls) =
                    (IF gen.kind.tag = "Bangumi" THEN 2 ELSE 1) + Len(RemoteList)

C18_Witness ==
    /\ DrainedWithoutError
    /\ gen.kind.tag = "Bangumi"
    /\ Len(RemoteList) = 2
    /\ Len(netCalls) = 4

\* C19 as stated: every request handed to the transport carries the
\* credential of the source as its Cookie header when one is set, and no
\* Cookie header when none is set.
C19_CookieWheneverSet ==
    \A i \in 1..Len(netCalls) : netCalls[i].cookie = cookie

\* C19 as amended: a request carries a Cookie header exactly when the
\* wrapper was called with requiresAuth true, and it is then the credential
\* of the source; the listing calls pass requiresAuth = (a credential is
\* set) and so carry it whenever one is set, while a stream-address call
\* carries it only for an auth-required tier.
C19_CookieWhenRequired ==
    (call.phase # "idle" /\ Len(netCalls) = 1) =>
        LET sent == netCalls[1]
        IN  /\ IsSome(sent.cookie) <=> call.with_cookie
            /\ IsSome(sent.cookie) => sent.cookie = cookie
            /\ call.fn \in {"request_video_info", "request_bangumi_ssid",
                            "request_bangumi_info"} => sent.cookie = cookie
            /\ call.fn = "request_video_url" =>
                   (IsSome(sent.cookie) <=> PlatformCode(call.dimension) > 32)

C19_Witness ==
    /\ call.phase = "done"
    /\ call.fn = "request_video_url"
    /\ call.dimension = "P480"
    /\ IsSome(cookie)
    /\ Len(netCalls) = 1
    /\ netCalls[1].cookie = None
    /\ CallResult.ok

\* C20: when the stream-address answer decodes and has neither a non-empty
\* segmented list nor a separate-track section, request_video_url fails
\* with NoSuchResource; and it never returns Ok with no video URL.
C20_NeitherShape ==
    StreamInfoCall =>
        /\ ((~IsSome(CallStreamInfo.durl) \/ Unwrap(CallStreamInfo.durl) = <<>>)
            /\ ~IsSome(CallStreamInfo.dash))
               => (~CallResult.ok /\ CallResult.err.kind = "NoSuchResource")
        /\ CallResult.ok => Len(CallResult.val[1]) >= 1

\* ----------------------------- claims on selection, titles and termination

\* A direct call of request_video_url has returned after a separate-track
\* answer (no segmented list) with a video candidate of the requested code.
DashCallWithMatch ==
    /\ StreamInfoCall
    /\ ~IsSome(CallStreamInfo.durl)
    /\ IsSome(CallStreamInfo.dash)
    /\ \E i \in 1..Len(Unwrap(CallStreamInfo.dash).video) :
           Unwrap(CallStreamInfo.dash).video[i].id = PlatformCode(call.dimension)

\* C21: for a separate-track answer with a video candidate of the requested
\* code, a returned audio list is exactly one URL, the address of the first
\* audio candidate whatever its id, never that of a later candidate; and
\* the call does return when there is an audio candidate and the addresses
\* of the chosen video candidate and of the first audio candidate parse.
C21_FirstAudioCandidate ==
    DashCallWithMatch =>
        LET dash == Unwrap(CallStreamInfo.dash)
            hits == {i \in 1..Len(dash.video) :
                        dash.video[i].id = PlatformCode(call.dimension)}
            first == CHOOSE i \in hits : \A j \in hits : i <= j
        IN  /\ CallResult.ok =>
                  /\ Len(dash.audio) >= 1
                  /\ CallResult.val[2] =
                         <<[scheme |-> "https", href |-> dash.audio[1].base_url.rest]>>
            /\ (/\ Len(dash.audio) >= 1
                /\ Parseable(dash.audio[1].base_url)
                /\ Parseable(dash.video[first].base_url)) => CallResult.ok

C21_Witness ==
    /\ DashCallWithMatch
    /\ LET audio == Unwrap(CallStreamInfo.dash).audio
       IN  /\ Len(audio) = 2
           /\ audio[1] = DashItem(30216, Text(<<"a", 2>>))
           /\ audio[2] = DashItem(30280, Text(<<"a", 1>>))
    /\ CallResult.ok
    /\ CallResult.val[2] = <<[scheme |-> "https", href |-> <<"a", 2>>]>>

Terminal == gen.pc = "done"

\* C22: while the transport answers every call and the consumer keeps
\* pulling, a flow started by video_list reaches its terminal state (the
\* block has returned, after the last element or after an error) unless the
\* consumer drops the stream first; and from a terminal stream a further
\* pull gets no element and sends no call: the stream stays terminal with
\* the same elements and calls, and next() returns None.
C22_Termination ==
    /\ [](gen.pc # "none" => <>(Terminal \/ gen.pc = "none"))
    /\ [][(Terminal /\ gen'.pc # "none") =>
              /\ Terminal'
              /\ out' = out
              /\ netCalls' = netCalls
              /\ nones' = nones + 1]_vars

\* A Series flow drained of its two episodes, then pulled again.
C22_Witness ==
    /\ Terminal
    /\ gen.kind.tag = "Bangumi"
    /\ Len(out) = 2
    /\ out[1].ok
    /\ out[2].ok
    /\ nones >= 2

\* C22's other terminal state: the flow failed, and was pulled again.
C22_WitnessFailed ==
    /\ Terminal
    /\ Len(out) = 2
    /\ out[1].ok
    /\ ~out[2].ok
    /\ nones >= 1

\* s begins with the text a / ends with the text b.
BeginsWith(s, a) == Len(s) >= Len(a) /\ SubSeq(s, 1, Len(a)) = a
EndsWith(s, b) == Len(s) >= Len(b) /\ SubSeq(s, (Len(s) - Len(b)) + 1, Len(s)) = b

\* What the claims on titles say of a Video flow: the i-th element carries
\* the i-th part's name and no cover.
VideoTitles ==
    (gen.pc # "none" /\ gen.kind.tag = "Video") =>
        \A i \in 1..Len(out) :
            out[i].ok => /\ out[i].val.title = RemoteList[i].part
                         /\ out[i].val.pic = None

\* C23 as stated: in a Series flow the title of each element begins with
\* the episode's long-form title and ends with its short-form title, and
\* its cover is present; in a Video flow the title is the part name and the
\* cover is absent.
C23_TitleLongFirst ==
    /\ SeriesFlow =>
          \A i \in 1..Len(out) :
              out[i].ok => /\ BeginsWith(out[i].val.title, RemoteList[i].long_title)
                           /\ EndsWith(out[i].val.title, RemoteList[i].title)
                           /\ IsSome(out[i].val.pic)
    /\ VideoTitles

\* C23 as amended: in a Series flow the title of each element is the
\* episode's short-form title, a space, and its long-form title, and its
\* cover is present, the parsed cover address of that episode; in a Video
\* flow the title is the part name and the cover is absent.
C23_TitleShortFirst ==
    /\ SeriesFlow =>
          \A i \in 1..Len(out) :
              out[i].ok =>
                  /\ out[i].val.title =
                         RemoteList[i].title \o <<" ">> \o RemoteList[i].long_title
                  /\ out[i].val.pic =
                         Some([scheme |-> "https", href |-> RemoteList[i].cover.rest])
    /\ VideoTitles

C23_Witness ==
    /\ SeriesFlow
    /\ Len(out) = 2
    /\ out[2].ok
    /\ RemoteList[2].title = <<"1">>
    /\ out[2].val.title = <<"1", " ", "first">>
    /\ out[2].val.pic = Some([scheme |-> "https", href |-> <<"cover", 1>>])

\* C23's other case: a part of a Video.
C23_WitnessVideo ==
    /\ gen.pc # "none"
    /\ gen.kind.tag = "Video"
    /\ Len(out) = 2
    /\ out[2].ok
    /\ out[2].val.title = <<"part one">>
    /\ out[2].val.pic = None

\* The number of listing calls of the flow's branch, and the list the last
\* of them answered with.
ListingCalls == IF gen.kind.tag = "Bangumi" THEN 2 ELSE 1
ListedEntries ==
    LET data == Unwrap(answers[ListingCalls].data)
    IN  IF gen.kind.tag = "Bangumi" THEN data.episodes ELSE data
\* The listing stage went through: its calls succeeded, and for a Series the
\* cover of every episode parsed.
Listed ==
    /\ Len(answers) >= ListingCalls
    /\ \A i \in 1..ListingCalls : Succeeded(answers[i])
    /\ gen.kind.tag = "Bangumi" =>
           \A i \in 1..Len(ListedEntries) : Parseable(ListedEntries[i].cover)

\* The flow asks for an auth-required tier and the source has no credential.
AuthTierNoCredential ==
    /\ gen.pc # "none"
    /\ PlatformCode(DimensionCode_from(gen.dimension)) > 32
    /\ cookie = None

\* C24: a listing call never fails with NeedLogin, with or without a
\* credential: a NeedLogin element comes only after the listing stage went
\* through with at least one entry, and never while a credential is set.
\* So a flow for an auth-required tier without a credential issues no
\* stream-address call, and once the listing stage went through with at
\* least one entry it has issued exactly its 1 (Video) or 2 (Series)
\* listing calls and its only element is the NeedLogin error.
C24_NeedLoginOnlyAtStreamCall ==
    gen.pc # "none" =>
        /\ \A i \in 1..Len(out) :
               IsNeedLogin(out[i]) =>
                   /\ cookie = None
                   /\ Listed
                   /\ Len(ListedEntries) >= 1
        /\ AuthTierNoCredential =>
               /\ StreamCalls = <<>>
               /\ Len(netCalls) <= ListingCalls
               /\ (Listed /\ Len(ListedEntries) >= 1) =>
                      /\ Len(netCalls) = ListingCalls
                      /\ Len(out) = 1
                      /\ IsNeedLogin(out[1])
                      /\ Terminal

C24_Witness ==
    /\ AuthTierNoCredential
    /\ gen.kind.tag = "Bangumi"
    /\ gen.dimension = 80
    /\ Listed
    /\ Len(ListedEntries) = 2
    /\ Len(netCalls) = 2
    /\ out = <<Err("NeedLogin", <<>>)>>
    /\ nones >= 1

\* C24's other branch: a Video.
C24_WitnessVideo ==
    /\ AuthTierNoCredential
    /\ gen.kind.tag = "Video"
    /\ Listed
    /\ Len(ListedEntries) = 1
    /\ Len(netCalls) = 1
    /\ out = <<Err("NeedLogin", <<>>)>>

\* The nine platform codes, as the claim lists them.
KnownCodes == {6, 16, 32, 64, 74, 80, 112, 116, 120}

\* C25: From<i32> takes each of the nine platform codes to a tier whose
\* code (the tier turned back into an integer) is that same integer, and
\* every other integer to the 720P tier, code 64, which need_login marks
\* auth-required.  video_list takes any integer: on a recognised page it
\* returns a stream, never an error about the resolution; and a flow
\* started with an integer that is no platform code asks for code 64 in its
\* stream-address calls, and without a credential sends none and, once the
\* listing stage went through with at least one entry, holds NeedLogin as
\* its only element.
C25_UnknownResolutionIs720 ==
    /\ query.op = "from" =>
          IF query.arg \in KnownCodes
          THEN DimensionCode_as_i32(query.result) = query.arg
          ELSE /\ query.result = "P720"
               /\ DimensionCode_as_i32(query.result) = 64
               /\ need_login(query.result)
    /\ (IsSome(ret) /\ valid(Unwrap(ret).url)) => Unwrap(ret).result.ok
    /\ (gen.pc # "none" /\ gen.dimension \notin KnownCodes) =>
          /\ \A i \in 1..Len(StreamCalls) :
                 /\ StreamCalls[i].url.query.qn = IntToString(64)
                 /\ IsSome(StreamCalls[i].cookie)
          /\ cookie = None =>
                 /\ StreamCalls = <<>>
                 /\ (Listed /\ Len(ListedEntries) >= 1) =>
                        out = <<Err("NeedLogin", <<>>)>>

C25_Witness ==
    /\ gen.pc = "done"
    /\ gen.dimension = 7
    /\ cookie = None
    /\ Listed
    /\ Len(ListedEntries) >= 1
    /\ out = <<Err("NeedLogin", <<>>)>>

\* C25's translation alone, at the lowest integer.
C25_WitnessFrom ==
    /\ query.op = "from"
    /\ query.arg = I32Min
    /\ query.result = "P720"

\* C25 with a credential: the flow asks the remote for code 64.
C25_WitnessWithCredential ==
    /\ gen.dimension = 7
    /\ IsSome(cookie)
    /\ Len(StreamCalls) >= 1
    /\ Len(out) >= 1
    /\ out[1].ok

\* The Series flow's episode-list call was answered with a list in which
\* some episode's cover does not parse.
BadCoverListed ==
    /\ SeriesFlow
    /\ Len(answers) >= 2
    /\ Succeeded(answers[1])
    /\ Succeeded(answers[2])
    /\ \E i \in 1..Len(ListedEntries) : ~Parseable(ListedEntries[i].cover)

\* C26: in a Series flow every cover is parsed when the episode list
\* arrives, before any stream-address call.  If some episode's cover does
\* not parse, wherever it stands in the list, the stream holds exactly one
\* element, an error, and has ended; the two listing calls are the only
\* calls, with no stream-address call for any episode.  So a stream-address
\* call is made only when every cover of the list parsed.
C26_CoversBeforeStreamCalls ==
    /\ BadCoverListed =>
          /\ Len(out) = 1
          /\ ~out[1].ok
          /\ Terminal
          /\ Len(netCalls) = 2
          /\ StreamCalls = <<>>
    /\ (SeriesFlow /\ StreamCalls # <<>>) => Listed

\* The bad cover is the last episode's, after a well-formed one.
C26_Witness ==
    /\ BadCoverListed
    /\ Len(ListedEntries) = 2
    /\ Parseable(ListedEntries[1].cover)
    /\ ~Parseable(ListedEntries[2].cover)
    /\ IsSome(cookie)
    /\ Len(out) = 1
    /\ out[1].err.kind = "InvalidApiData"
    /\ nones >= 1

====
